---- MODULE Spec2Model ----
(***************************************************************************)
(* Azure App Configuration store (configuration/azure/appconfig):          *)
(* the subscription engine of ConfigurationStore.  Subscribe, Unsubscribe   *)
(* and the per-subscription poll loop doSubscribe are modelled statement   *)
(* by statement; every access to the two unguarded registry maps and to    *)
(* the sync.Map of stop channels is one step, so that concurrent callers   *)
(* interleave exactly where the Go code lets them.                         *)
(***************************************************************************)
EXTENDS Integers, Sequences, FiniteSets, TLC

\* ---------------------------------------------------------------- bounds
MaxSubs == 2        \* Subscribe calls made in a run (one fresh uuid each)
MaxUnsubs == 2      \* Unsubscribe calls made in a run
MaxReqLen == 2      \* longest req.Keys of a Subscribe call
NumCtxs == 2        \* distinct contexts the callers use

\* ------------------------------------------------------------- constants
defaultSubscribePollInterval == 30   \* time.Second * 30; only its sign is used

Keys == {"a", "b"}                   \* configuration keys a caller may name
SentinelKeyName == "sentinel1"       \* the non-empty sentinel key callers use
Ctxs == 1..NumCtxs                   \* contexts callers pass to Subscribe
UnknownID == 0                       \* an ID that no Subscribe ever returned
SubIDs == 1..MaxSubs                 \* uuid.New() results, in order of issue
UnsubCalls == 1..MaxUnsubs

\* meta.Properties[subscribePollInterval]: absent/empty, or a parsed integer
PollIntervalProps == {[ok |-> FALSE, val |-> 0], [ok |-> TRUE, val |-> 0]}

\* req.Metadata of a SubscribeRequest, as far as the sentinel key goes
EmptyMetadata == [x \in {} |-> ""]
Metadatas ==
    {EmptyMetadata, [x \in {"sentinelKey"} |-> ""],
     [x \in {"sentinelKey"} |-> SentinelKeyName]}

RECURSIVE SeqsUpTo(_)
SeqsUpTo(n) ==
    IF n = 0 THEN {<<>>}
    ELSE LET shorter == SeqsUpTo(n - 1)
         IN  shorter \cup {Append(s, k) : s \in {t \in shorter : Len(t) = n - 1}, k \in Keys}

\* req.Keys of a SubscribeRequest: any slice, duplicates included
KeyLists == SeqsUpTo(MaxReqLen)

SeqToSet(s) == {s[i] : i \in 1..Len(s)}

VARIABLES
    subscribePollInterval,  \* r.metadata.subscribePollInterval
    subscribeStopChanMap,   \* sync.Map: the IDs that have a stop channel stored
    stopClosed,             \* the stop channels (named by their ID) that are closed
    keysToSubIDMap,         \* map[string]string
    subIDToKeyListMap,      \* map[string][]string
    nextID,                 \* number of uuids issued so far
    subCall,                \* per Subscribe call (named by its uuid): locals and position
    nextUnsub,              \* number of Unsubscribe calls begun so far
    unsubCall,              \* per Unsubscribe call: locals and position
    loop,                   \* per subscription: the doSubscribe goroutine
    ctxDone,                \* the contexts that have been cancelled
    fatal,                  \* the Go runtime has thrown on concurrent map access
    released                \* the keys the Unsubscribe that returned last had found
                            \* owned by its ID, until the next call begins (observation)

vars == <<subscribePollInterval, subscribeStopChanMap, stopClosed, keysToSubIDMap,
          subIDToKeyListMap, nextID, subCall, nextUnsub, unsubCall, loop, ctxDone,
          fatal, released>>

\* ----------------------------------------------------------- pure helpers

\* parseMetadata, lines 172-179: the poll interval is the default unless the
\* property is present and non-empty, and then it is the bare integer
\* (time.Duration(parsedVal), no unit and no range check)
parseMetadata(prop) ==
    IF prop.ok THEN prop.val ELSE defaultSubscribePollInterval

getSentinelKeyFromMetadata(metadata) ==
    IF "sentinelKey" \in DOMAIN metadata /\ metadata["sentinelKey"] # ""
    THEN metadata["sentinelKey"]
    ELSE ""

\* a read that fails is passed over and the items of the other keys returned
GetSettings_SkipsFailed(keys, failing, items) ==
    [err |-> FALSE, items |-> items \cup (SeqToSet(keys) \ failing), failedAt |-> ""]

\* Get with a non-empty key list: one GetSetting per key in order, returning
\* at the first read that fails with an empty response.
\* failing: the keys whose GetSetting returns an error at this moment.
\* failedAt: the key whose GetSetting returned the error that Get returns.
RECURSIVE GetSettings(_, _, _)
GetSettings(keys, failing, items) ==
    IF keys = <<>> THEN [err |-> FALSE, items |-> items, failedAt |-> ""]
    ELSE IF Head(keys) \in failing THEN [err |-> TRUE, items |-> {}, failedAt |-> Head(keys)]
    ELSE GetSettings(Tail(keys), failing, items \cup {Head(keys)})

\* getAll: the listing either fails as a whole or returns every stored key
getAll(failing) ==
    IF "*" \in failing THEN [err |-> TRUE, items |-> {}]
    ELSE [err |-> FALSE, items |-> Keys \cup {SentinelKeyName}]

Get(keys, failing) ==
    IF Len(keys) = 0 THEN getAll(failing) ELSE GetSettings(keys, failing, {})

\* map helpers
MapDelete(m, k) == [x \in DOMAIN m \ {k} |-> m[x]]
MapPut(m, k, v) == [x \in DOMAIN m \cup {k} |-> IF x = k THEN v ELSE m[x]]


\* ------------------------------------------------------------------ Init

IdleSub ==
    [pc |-> "idle", keys |-> <<>>, metadata |-> EmptyMetadata, ctx |-> 1,
     sentinelKey |-> "", i |-> 1, found |-> FALSE, actual |-> <<>>, result |-> "none",
     ownedAtStart |-> [x \in {} |-> 0], afterUnsub |-> {}]

\* a call that has returned: its locals are gone, its return value is known
ReturnedSub(result) == [IdleSub EXCEPT !.pc = "done", !.result = result]

IdleUnsub ==
    [pc |-> "idle", id |-> UnknownID, keys |-> <<>>, i |-> 1, result |-> "none",
     owned |-> {}]

ReturnedUnsub(reqID, result) ==
    [IdleUnsub EXCEPT !.pc = "done", !.id = reqID, !.result = result]

\* sentinel, fetch, events, items, handled: what the current cycle has done
NoLoop ==
    [pc |-> "none", keys |-> <<>>, ctx |-> 1, sentinelKey |-> "",
     sentinel |-> "none", fetch |-> "none", events |-> 0, items |-> {},
     handled |-> "none"]

\* NewAzureAppConfigurationStore (both maps empty) followed by Init, which
\* stores the parsed metadata
Init ==
    /\ \E prop \in PollIntervalProps : subscribePollInterval = parseMetadata(prop)
    /\ subscribeStopChanMap = {}
    /\ stopClosed = {}
    /\ keysToSubIDMap = [x \in {} |-> 0]
    /\ subIDToKeyListMap = [x \in {} |-> <<>>]
    /\ nextID = 0
    /\ subCall = [id \in SubIDs |-> IdleSub]
    /\ nextUnsub = 0
    /\ unsubCall = [u \in UnsubCalls |-> IdleUnsub]
    /\ loop = [id \in SubIDs |-> NoLoop]
    /\ ctxDone = {}
    /\ fatal = FALSE
    /\ released = {}

SubInFlight(id) == subCall[id].pc \notin {"idle", "done"}
UnsubInFlight(u) == unsubCall[u].pc \notin {"idle", "done"}
NoCallInFlight ==
    /\ \A id \in SubIDs : ~SubInFlight(id)
    /\ \A u \in UnsubCalls : ~UnsubInFlight(u)

\* the IDs a caller can pass to Unsubscribe: those a Subscribe has returned,
\* and IDs that were never issued
ReturnedIDs == {id \in SubIDs : subCall[id].pc = "done" /\ subCall[id].result = "ok"}

\* ------------------------------------------------------------- Subscribe

\* the contexts the n-th Subscribe call may be given: one an earlier call was
\* given, or the next unused one (contexts are named in order of first use)
CtxsFor(n) == {c \in Ctxs : c <= n}

\* position of the for loop over req.Keys once index i is reached
ForKeys(keys, i) == IF i > Len(keys) THEN "post" ELSE "check"

\* the sentinel key check left out
SentinelKeyMissing_Unchecked(sentinelKey) == FALSE

\* line 273: if sentinelKey == ""
SentinelKeyMissing(sentinelKey) == sentinelKey = ""

\* lines 269-275: a fresh uuid and stop channel are stored in the sync.Map
\* before the sentinel key is looked at; an empty sentinel key is an error
SubscribeStore(keys, metadata, ctx) ==
    /\ ~fatal
    /\ nextID < MaxSubs
    /\ LET id == nextID + 1
           sentinelKey == getSentinelKeyFromMetadata(metadata)
       IN  /\ nextID' = id
           /\ subscribeStopChanMap' = subscribeStopChanMap \cup {id}
           /\ subCall' = [subCall EXCEPT ![id] =
                  [pc |-> IF SentinelKeyMissing(sentinelKey) THEN "return"
                          ELSE ForKeys(keys, 1),
                   keys |-> keys, metadata |-> metadata, ctx |-> ctx,
                   sentinelKey |-> sentinelKey, i |-> 1, found |-> FALSE,
                   actual |-> <<>>,
                   result |-> IF SentinelKeyMissing(sentinelKey) THEN "errSentinel"
                              ELSE "none",
                   ownedAtStart |-> keysToSubIDMap, afterUnsub |-> released]]
           /\ released' = {}
    /\ UNCHANGED <<subscribePollInterval, stopClosed, keysToSubIDMap, subIDToKeyListMap,
                   nextUnsub, unsubCall, loop, ctxDone, fatal>>

\* the lookup taken to miss every time
KeyFound_AlwaysMissing(m, key) == FALSE

\* line 278: _, found := r.keysToSubIDMap[key]
KeyFound(m, key) == key \in DOMAIN m

SubscribeCheckKey(id) ==
    /\ ~fatal
    /\ subCall[id].pc = "check"
    /\ subCall' = [subCall EXCEPT
           ![id].found = KeyFound(keysToSubIDMap, subCall[id].keys[subCall[id].i]),
           ![id].pc = "reserve"]
    /\ UNCHANGED <<subscribePollInterval, subscribeStopChanMap, stopClosed, keysToSubIDMap,
                   subIDToKeyListMap, nextID, nextUnsub, unsubCall, loop, ctxDone, fatal,
                   released>>

\* lines 279-282: a key that was not found is appended and written to the map
SubscribeReserveKey(id) ==
    /\ ~fatal
    /\ subCall[id].pc = "reserve"
    /\ LET c == subCall[id]
           key == c.keys[c.i]
       IN  /\ keysToSubIDMap' =
                  IF c.found THEN keysToSubIDMap ELSE MapPut(keysToSubIDMap, key, id)
           /\ subCall' = [subCall EXCEPT
                  ![id].actual = IF c.found THEN c.actual ELSE Append(c.actual, key),
                  ![id].i = c.i + 1,
                  ![id].pc = ForKeys(c.keys, c.i + 1)]
    /\ UNCHANGED <<subscribePollInterval, subscribeStopChanMap, stopClosed,
                   subIDToKeyListMap, nextID, nextUnsub, unsubCall, loop, ctxDone, fatal,
                   released>>

\* the key list never written
RegisterKeyList_Skips(m, id, actual) == m

\* lines 287-293: the reserved keys become (or extend) the ID's key list
RegisterKeyList(m, id, actual) ==
    IF id \in DOMAIN m THEN MapPut(m, id, m[id] \o actual) ELSE MapPut(m, id, actual)

\* the check for an empty reservation left out
NoKeyReserved_Unchecked(actual) == FALSE

\* line 284: if len(actualKeyToSubscribeSlice) == 0
NoKeyReserved(actual) == Len(actual) = 0

\* lines 284-296: no key reserved is an error; otherwise the key list is
\* registered, req.Keys is narrowed and the poll loop goroutine is started
SubscribeFinish(id) ==
    /\ ~fatal
    /\ subCall[id].pc = "post"
    /\ LET c == subCall[id]
       IN  IF NoKeyReserved(c.actual)
           THEN /\ subCall' = [subCall EXCEPT ![id].pc = "return",
                                              ![id].result = "errAllSubscribed"]
                /\ UNCHANGED <<subIDToKeyListMap, loop>>
           ELSE /\ subIDToKeyListMap' = RegisterKeyList(subIDToKeyListMap, id, c.actual)
                /\ loop' = [loop EXCEPT ![id] =
                       [NoLoop EXCEPT !.pc = "fetchSentinel", !.keys = c.actual,
                                      !.ctx = c.ctx, !.sentinelKey = c.sentinelKey]]
                /\ subCall' = [subCall EXCEPT ![id].pc = "return", ![id].result = "ok"]
    /\ UNCHANGED <<subscribePollInterval, subscribeStopChanMap, stopClosed, keysToSubIDMap,
                   nextID, nextUnsub, unsubCall, ctxDone, fatal, released>>

\* lines 274, 285, 297: the call returns to its caller
SubscribeReturn(id) ==
    /\ ~fatal
    /\ subCall[id].pc = "return"
    /\ subCall' = [subCall EXCEPT ![id] = ReturnedSub(subCall[id].result)]
    /\ UNCHANGED <<subscribePollInterval, subscribeStopChanMap, stopClosed, keysToSubIDMap,
                   subIDToKeyListMap, nextID, nextUnsub, unsubCall, loop, ctxDone, fatal,
                   released>>

\* ----------------------------------------------------------- Unsubscribe

\* line 355: oldStopChan, ok := r.subscribeStopChanMap.Load(req.ID);
\* an ID with no stop channel stored returns nil at once
\* the ok of the Load ignored
LoadStopChan_IgnoresOk(m, reqID) == TRUE

LoadStopChan(m, reqID) == reqID \in m

UnsubscribeLoad(reqID) ==
    /\ ~fatal
    /\ nextUnsub < MaxUnsubs
    /\ LET u == nextUnsub + 1
           ok == LoadStopChan(subscribeStopChanMap, reqID)
       IN  /\ nextUnsub' = u
           /\ unsubCall' = [unsubCall EXCEPT ![u] =
                  IF ~ok THEN ReturnedUnsub(reqID, "ok")
                  ELSE [pc |-> "delete", id |-> reqID, keys |-> <<>>, i |-> 1,
                        result |-> "none",
                        owned |-> {k \in DOMAIN keysToSubIDMap : keysToSubIDMap[k] = reqID}]]
           /\ released' = {}
    /\ UNCHANGED <<subscribePollInterval, subscribeStopChanMap, stopClosed, keysToSubIDMap,
                   subIDToKeyListMap, nextID, subCall, loop, ctxDone, fatal>>

\* line 357: r.subscribeStopChanMap.Delete(req.ID)
UnsubscribeDelete(u) ==
    /\ ~fatal
    /\ unsubCall[u].pc = "delete"
    /\ subscribeStopChanMap' = subscribeStopChanMap \ {unsubCall[u].id}
    /\ unsubCall' = [unsubCall EXCEPT ![u].pc = "close"]
    /\ UNCHANGED <<subscribePollInterval, stopClosed, keysToSubIDMap, subIDToKeyListMap,
                   nextID, subCall, nextUnsub, loop, ctxDone, fatal, released>>

\* the close reaching every subscription's stop channel
CloseChan_ClosesAll(closed, ch) ==
    IF ch \in closed THEN [panic |-> TRUE, closed |-> closed]
    ELSE [panic |-> FALSE, closed |-> SubIDs]

\* close(ch) of a channel: closing a closed channel panics
CloseChan(closed, ch) ==
    IF ch \in closed THEN [panic |-> TRUE, closed |-> closed]
    ELSE [panic |-> FALSE, closed |-> closed \cup {ch}]

\* line 358: close(oldStopChan.(chan struct{})); a panic unwinds the call
UnsubscribeClose(u) ==
    /\ ~fatal
    /\ unsubCall[u].pc = "close"
    /\ LET r == CloseChan(stopClosed, unsubCall[u].id)
       IN  /\ stopClosed' = r.closed
           /\ unsubCall' = [unsubCall EXCEPT ![u] =
                  IF r.panic THEN ReturnedUnsub(unsubCall[u].id, "panic")
                  ELSE [unsubCall[u] EXCEPT !.pc = "lookup"]]
           /\ released' = IF r.panic THEN {} ELSE released
    /\ UNCHANGED <<subscribePollInterval, subscribeStopChanMap, keysToSubIDMap,
                   subIDToKeyListMap, nextID, subCall, nextUnsub, loop, ctxDone, fatal>>

\* position of the for loop over keys once index i is reached
ForRelease(keys, i) == IF i > Len(keys) THEN "deleteList" ELSE "release"

\* lines 359-360: keys, found := r.subIDToKeyListMap[req.ID]
UnsubscribeLookup(u) ==
    /\ ~fatal
    /\ unsubCall[u].pc = "lookup"
    /\ LET id == unsubCall[u].id
           found == id \in DOMAIN subIDToKeyListMap
       IN  /\ unsubCall' = [unsubCall EXCEPT ![u] =
                  IF ~found THEN ReturnedUnsub(id, "ok")
                  ELSE [unsubCall[u] EXCEPT !.keys = subIDToKeyListMap[id], !.i = 1,
                                            !.pc = ForRelease(subIDToKeyListMap[id], 1)]]
           /\ released' = IF found THEN released ELSE unsubCall[u].owned
    /\ UNCHANGED <<subscribePollInterval, subscribeStopChanMap, stopClosed, keysToSubIDMap,
                   subIDToKeyListMap, nextID, subCall, nextUnsub, loop, ctxDone, fatal>>

\* the delete left out
ReleaseKey_Forgets(m, key) == m

\* line 362: delete(r.keysToSubIDMap, key), whoever the key maps to
ReleaseKey(m, key) == MapDelete(m, key)

\* lines 361-363: one iteration of the loop over the ID's key list
UnsubscribeReleaseKey(u) ==
    /\ ~fatal
    /\ unsubCall[u].pc = "release"
    /\ LET c == unsubCall[u]
       IN  /\ keysToSubIDMap' = ReleaseKey(keysToSubIDMap, c.keys[c.i])
           /\ unsubCall' = [unsubCall EXCEPT ![u].i = c.i + 1,
                                              ![u].pc = ForRelease(c.keys, c.i + 1)]
    /\ UNCHANGED <<subscribePollInterval, subscribeStopChanMap, stopClosed,
                   subIDToKeyListMap, nextID, subCall, nextUnsub, loop, ctxDone, fatal,
                   released>>

\* lines 364-367: delete(r.subIDToKeyListMap, req.ID); return nil
UnsubscribeDeleteList(u) ==
    /\ ~fatal
    /\ unsubCall[u].pc = "deleteList"
    /\ subIDToKeyListMap' = MapDelete(subIDToKeyListMap, unsubCall[u].id)
    /\ unsubCall' = [unsubCall EXCEPT ![u] = ReturnedUnsub(unsubCall[u].id, "ok")]
    /\ released' = unsubCall[u].owned
    /\ UNCHANGED <<subscribePollInterval, subscribeStopChanMap, stopClosed, keysToSubIDMap,
                   nextID, subCall, nextUnsub, loop, ctxDone, fatal>>

\* ------------------------------------------------- doSubscribe (poll loop)

\* the keys a backend read may fail on at some moment
Readable == Keys \cup {SentinelKeyName}

\* top of the for loop, line 301: a new cycle (the record of the cycle that
\* ended is dropped when the select is left)
NewCycle(l) ==
    [l EXCEPT !.pc = "fetchSentinel", !.sentinel = "none", !.fetch = "none",
              !.events = 0, !.items = {}, !.handled = "none"]

\* the error of the sentinel read logged but not acted on
AfterSentinelGet_IgnoresErr(err) == "fetchKeys"

\* lines 307-310: a failed sentinel read is logged and the cycle skips to the
\* select; a successful one goes on to read the watched keys
AfterSentinelGet(err) == IF err THEN "select" ELSE "fetchKeys"

\* the handler call detached from the loop, which goes straight to its select
AfterKeysGet_HandlerDetached(err) == "select"

\* lines 314-317: a failed read of the keys is logged and the cycle skips to
\* the select; a successful one goes on to the handler
AfterKeysGet(err) == IF err THEN "select" ELSE "handler"

\* lines 303-309: the sentinel read
doSubscribeGetSentinel(id, failing) ==
    /\ ~fatal
    /\ loop[id].pc = "fetchSentinel"
    /\ LET r == Get(<<loop[id].sentinelKey>>, failing)
       IN  loop' = [loop EXCEPT
               ![id].pc = AfterSentinelGet(r.err),
               ![id].sentinel = IF r.err THEN "failed" ELSE "ok"]
    /\ UNCHANGED <<subscribePollInterval, subscribeStopChanMap, stopClosed, keysToSubIDMap,
                   subIDToKeyListMap, nextID, subCall, nextUnsub, unsubCall, ctxDone, fatal,
                   released>>

\* lines 310-316: the read of req.Keys
doSubscribeGetKeys(id, failing) ==
    /\ ~fatal
    /\ loop[id].pc = "fetchKeys"
    /\ LET r == Get(loop[id].keys, failing)
       IN  loop' = [loop EXCEPT
               ![id].pc = AfterKeysGet(r.err),
               ![id].fetch = IF r.err THEN "failed" ELSE "ok",
               ![id].items = r.items]
    /\ UNCHANGED <<subscribePollInterval, subscribeStopChanMap, stopClosed, keysToSubIDMap,
                   subIDToKeyListMap, nextID, subCall, nextUnsub, unsubCall, ctxDone, fatal,
                   released>>

\* what a handler invocation can do
HandlerOutcomes == {"ok", "err", "panic"}

\* no deferred recover: a panic of the handler ends the goroutine
AfterHandler_PanicUnwinds(outcome) == IF outcome = "panic" THEN "stopped" ELSE "select"

\* lines 331-345: where control is after handler(ctx, e): an error is logged,
\* a panic is recovered by the deferred function; either way the call returns
\* to the poll loop, which goes on to its select
AfterHandler(outcome) == "select"

\* line 317 and lines 330-345: one handler invocation with the fetched items
handleSubscribedChange(id, outcome) ==
    /\ ~fatal
    /\ loop[id].pc = "handler"
    /\ loop' = [loop EXCEPT ![id].pc = AfterHandler(outcome),
                            ![id].events = loop[id].events + 1,
                            ![id].handled = outcome]
    /\ UNCHANGED <<subscribePollInterval, subscribeStopChanMap, stopClosed, keysToSubIDMap,
                   subIDToKeyListMap, nextID, subCall, nextUnsub, unsubCall, ctxDone, fatal,
                   released>>

\* line 325: time.After(d) evaluated on entry to the select; a timer of
\* non-positive duration may already be ready when the cases are polled
TimerReadyAtSelect(d) == IF d <= 0 THEN {TRUE, FALSE} ELSE {FALSE}

\* the stop case missing from the select
ReadyCases_NoStop(id, timerReady) ==
    (IF loop[id].ctx \in ctxDone THEN {"ctx"} ELSE {})
    \cup (IF timerReady THEN {"timer"} ELSE {})

\* the cases of the select that are ready
ReadyCases(id, timerReady) ==
    (IF id \in stopClosed THEN {"stop"} ELSE {})
    \cup (IF loop[id].ctx \in ctxDone THEN {"ctx"} ELSE {})
    \cup (IF timerReady THEN {"timer"} ELSE {})

\* lines 320-326, on entry: one of the ready cases is chosen (uniformly at
\* random in Go); with none ready the goroutine blocks
doSubscribeSelect(id) ==
    /\ ~fatal
    /\ loop[id].pc = "select"
    /\ \E timerReady \in TimerReadyAtSelect(subscribePollInterval) :
         LET ready == ReadyCases(id, timerReady)
         IN  IF ready = {}
             THEN loop' = [loop EXCEPT ![id] = [NewCycle(loop[id]) EXCEPT !.pc = "blocked"]]
             ELSE \E c \in ready :
                    loop' = [loop EXCEPT ![id] =
                        IF c = "timer" THEN NewCycle(loop[id])
                        ELSE [NewCycle(loop[id]) EXCEPT !.pc = "stopped"]]
    /\ UNCHANGED <<subscribePollInterval, subscribeStopChanMap, stopClosed, keysToSubIDMap,
                   subIDToKeyListMap, nextID, subCall, nextUnsub, unsubCall, ctxDone, fatal,
                   released>>

\* lines 321-324, blocked: the close of stop or the cancellation of ctx wakes
\* the goroutine, which returns
doSubscribeWake(id) ==
    /\ ~fatal
    /\ loop[id].pc = "blocked"
    /\ ReadyCases(id, FALSE) # {}
    /\ loop' = [loop EXCEPT ![id].pc = "stopped"]
    /\ UNCHANGED <<subscribePollInterval, subscribeStopChanMap, stopClosed, keysToSubIDMap,
                   subIDToKeyListMap, nextID, subCall, nextUnsub, unsubCall, ctxDone, fatal,
                   released>>

\* line 325, blocked: the timer fires before stop or ctx does, next cycle
doSubscribeTimer(id) ==
    /\ ~fatal
    /\ loop[id].pc = "blocked"
    /\ ReadyCases(id, FALSE) = {}
    /\ loop' = [loop EXCEPT ![id] = NewCycle(loop[id])]
    /\ UNCHANGED <<subscribePollInterval, subscribeStopChanMap, stopClosed, keysToSubIDMap,
                   subIDToKeyListMap, nextID, subCall, nextUnsub, unsubCall, ctxDone, fatal,
                   released>>

\* ------------------------------------------------------------ environment

\* the caller cancels a context it has passed, or will pass, to Subscribe
CancelContext(c) ==
    /\ ~fatal
    /\ c \notin ctxDone
    /\ ctxDone' = ctxDone \cup {c}
    /\ UNCHANGED <<subscribePollInterval, subscribeStopChanMap, stopClosed, keysToSubIDMap,
                   subIDToKeyListMap, nextID, subCall, nextUnsub, unsubCall, loop, fatal,
                   released>>

\* the registry map accesses a call is about to make: <<map, mode>>
SubAccess(id) ==
    IF subCall[id].pc = "check" THEN {<<"keysToSubIDMap", "r">>}
    ELSE IF subCall[id].pc = "reserve" /\ ~subCall[id].found THEN {<<"keysToSubIDMap", "w">>}
    ELSE IF subCall[id].pc = "post" /\ Len(subCall[id].actual) > 0
         THEN {<<"subIDToKeyListMap", "w">>}
    ELSE {}

UnsubAccess(u) ==
    IF unsubCall[u].pc = "lookup" THEN {<<"subIDToKeyListMap", "r">>}
    ELSE IF unsubCall[u].pc = "release" THEN {<<"keysToSubIDMap", "w">>}
    ELSE IF unsubCall[u].pc = "deleteList" THEN {<<"subIDToKeyListMap", "w">>}
    ELSE {}

Conflict(A, B) == \E a \in A, b \in B : a[1] = b[1] /\ (a[2] = "w" \/ b[2] = "w")

\* two calls are about to access the same Go map, one of them writing: the
\* maps carry no lock, and when the accesses overlap the runtime throws
\* "concurrent map writes" / "concurrent map read and map write"
ConcurrentMapAccess ==
    /\ ~fatal
    /\ \/ \E i, j \in SubIDs : i # j /\ Conflict(SubAccess(i), SubAccess(j))
       \/ \E i \in SubIDs, u \in UnsubCalls : Conflict(SubAccess(i), UnsubAccess(u))
       \/ \E u, v \in UnsubCalls : u # v /\ Conflict(UnsubAccess(u), UnsubAccess(v))
    /\ fatal' = TRUE
    /\ UNCHANGED <<subscribePollInterval, subscribeStopChanMap, stopClosed, keysToSubIDMap,
                   subIDToKeyListMap, nextID, subCall, nextUnsub, unsubCall, loop, ctxDone,
                   released>>

\* -------------------------------------------------------- specifications

SubscribeStep(id) ==
    \/ SubscribeCheckKey(id)
    \/ SubscribeReserveKey(id)
    \/ SubscribeFinish(id)
    \/ SubscribeReturn(id)

UnsubscribeStep(u) ==
    \/ UnsubscribeDelete(u)
    \/ UnsubscribeClose(u)
    \/ UnsubscribeLookup(u)
    \/ UnsubscribeReleaseKey(u)
    \/ UnsubscribeDeleteList(u)

LoopStep(id) ==
    \/ \E failing \in SUBSET Readable : doSubscribeGetSentinel(id, failing)
    \/ \E failing \in SUBSET Readable : doSubscribeGetKeys(id, failing)
    \/ \E outcome \in HandlerOutcomes : handleSubscribedChange(id, outcome)
    \/ doSubscribeSelect(id)
    \/ doSubscribeWake(id)
    \/ doSubscribeTimer(id)

\* callers on any number of goroutines
Next ==
    \/ \E keys \in KeyLists, metadata \in Metadatas, c \in CtxsFor(nextID + 1) :
         SubscribeStore(keys, metadata, c)
    \/ \E id \in SubIDs : SubscribeStep(id)
    \/ \E reqID \in ReturnedIDs \cup {UnknownID} : UnsubscribeLoad(reqID)
    \/ \E u \in UnsubCalls : UnsubscribeStep(u)
    \/ \E id \in SubIDs : LoopStep(id)
    \/ \E c \in Ctxs : CancelContext(c)
    \/ ConcurrentMapAccess

Spec == Init /\ [][Next]_vars

\* a single caller goroutine: a call begins only when the previous one has
\* returned; the poll loops run concurrently with it
SeqNext ==
    \/ /\ NoCallInFlight
       /\ \E keys \in KeyLists, metadata \in Metadatas, c \in CtxsFor(nextID + 1) :
            SubscribeStore(keys, metadata, c)
    \/ \E id \in SubIDs : SubscribeStep(id)
    \/ /\ NoCallInFlight
       /\ \E reqID \in ReturnedIDs \cup {UnknownID} : UnsubscribeLoad(reqID)
    \/ \E u \in UnsubCalls : UnsubscribeStep(u)
    \/ \E id \in SubIDs : LoopStep(id)
    \/ \E c \in Ctxs : CancelContext(c)

SeqSpec == Init /\ [][SeqNext]_vars

\* callers on any number of goroutines, at a time when no poll loop is
\* scheduled
RaceNext ==
    \/ \E keys \in KeyLists, metadata \in Metadatas, c \in CtxsFor(nextID + 1) :
         SubscribeStore(keys, metadata, c)
    \/ \E id \in SubIDs : SubscribeStep(id)
    \/ \E reqID \in ReturnedIDs \cup {UnknownID} : UnsubscribeLoad(reqID)
    \/ \E u \in UnsubCalls : UnsubscribeStep(u)
    \/ ConcurrentMapAccess

RaceSpec == Init /\ [][RaceNext]_vars


\* Subscribe calls and context cancellation only: the runs in which no
\* Unsubscribe is ever called.  Every goroutine that can take a step
\* eventually takes one, and a select that keeps finding the stop or ctx case
\* ready eventually chooses it (Go chooses among ready cases at random).
CancelNext ==
    \/ /\ NoCallInFlight
       /\ \E keys \in KeyLists, metadata \in Metadatas, c \in CtxsFor(nextID + 1) :
            SubscribeStore(keys, metadata, c)
    \/ \E id \in SubIDs : SubscribeStep(id)
    \/ \E id \in SubIDs : LoopStep(id)
    \/ \E c \in Ctxs : CancelContext(c)

SelectReturns(id) == doSubscribeSelect(id) /\ loop'[id].pc = "stopped"

CancelFairSpec ==
    /\ Init
    /\ [][CancelNext]_vars
    /\ \A id \in SubIDs : WF_vars(SubscribeStep(id))
    /\ \A id \in SubIDs : WF_vars(LoopStep(id))
    /\ \A id \in SubIDs : SF_vars(SelectReturns(id))

\* the life of subscriptions that were started: one caller making, in
\* sequence, Subscribe calls that name one key and a sentinel key and
\* Unsubscribe calls for IDs it was given, with the poll loops and context
\* cancellation running beside it
StopNext ==
    \/ /\ NoCallInFlight
       /\ \E k \in Keys, c \in CtxsFor(nextID + 1) :
            SubscribeStore(<<k>>, [x \in {"sentinelKey"} |-> SentinelKeyName], c)
    \/ \E id \in SubIDs : SubscribeStep(id)
    \/ /\ NoCallInFlight
       /\ \E reqID \in ReturnedIDs : UnsubscribeLoad(reqID)
    \/ \E u \in UnsubCalls : UnsubscribeStep(u)
    \/ \E id \in SubIDs : LoopStep(id)
    \/ \E c \in Ctxs : CancelContext(c)

\* scheduled fairly: a call or a goroutine that can take a step eventually
\* takes one (every backend read and handler invocation returns), and a
\* select that keeps finding the stop or ctx case ready eventually chooses it
StopFairSpec ==
    /\ Init
    /\ [][StopNext]_vars
    /\ \A id \in SubIDs : WF_vars(SubscribeStep(id))
    /\ \A u \in UnsubCalls : WF_vars(UnsubscribeStep(u))
    /\ \A id \in SubIDs : WF_vars(LoopStep(id))
    /\ \A id \in SubIDs : SF_vars(SelectReturns(id))

\* ------------------------------------------------------------ properties

\* the keys the registry maps to subscription id
OwnedBy(id) == {k \in DOMAIN keysToSubIDMap : keysToSubIDMap[k] = id}

\* the keys in the key list of subscription id
Listed(id) == IF id \in DOMAIN subIDToKeyListMap THEN SeqToSet(subIDToKeyListMap[id]) ELSE {}

\* C1: under every interleaving of concurrent Subscribe and Unsubscribe calls,
\* no key is in the key lists of two different subscription IDs (a key asked
\* for by two overlapping Subscribe calls is reserved by at most one of them).
C1_NoKeyInTwoKeyLists ==
    \A i, j \in SubIDs : i # j => Listed(i) \cap Listed(j) = {}

\* C3: Unsubscribe calls for the same ID that race or repeat close the stop
\* channel once and all return success: no call ends in the panic of a second
\* close.
C3_UnsubscribeNeverFaults ==
    \A u \in UnsubCalls : unsubCall[u].result # "panic"

\* C4: once the context given to Subscribe is cancelled, the subscription's
\* keys are eventually released from the registry, with no Unsubscribe call.
C4_CancelReleasesKeys ==
    \A id \in SubIDs :
        (loop[id].pc # "none" /\ loop[id].ctx \in ctxDone)
            ~> (OwnedBy(id) = {} /\ id \notin DOMAIN subIDToKeyListMap)

\* C5: once the stop channel of a subscription is closed, its poll loop begins
\* no new cycle, whatever the poll interval.
C5_NoNewCycleAfterStop ==
    [][\A id \in SubIDs :
          (id \in stopClosed /\ loop[id].pc # "fetchSentinel")
              => loop'[id].pc # "fetchSentinel"]_vars


\* the set of keys a Subscribe call was asked for
Requested(id) == SeqToSet(subCall[id].keys)

\* a Subscribe call about to return that was made with a non-empty sentinel
\* key while exactly one subscription owned keys, some of them asked for again
C2Case(id) ==
    LET c == subCall[id]
    IN  /\ c.pc = "return"
        /\ c.result # "errSentinel"
        /\ \E first \in SubIDs : \A k \in DOMAIN c.ownedAtStart : c.ownedAtStart[k] = first
        /\ DOMAIN c.ownedAtStart \cap Requested(id) # {}

\* C2: Subscribe(K2) made while one subscription owns K1, K1 and K2
\* overlapping, sentinel key non-empty: every key of the overlap stays with
\* the first subscription, the call succeeds iff K2 \ K1 is non-empty, and
\* the key list of the new subscription, which is what its poll loop reads,
\* is exactly K2 \ K1.
C2_SecondSubscribeGetsRest ==
    \A id \in SubIDs :
        C2Case(id) =>
            LET c == subCall[id]
                K1 == DOMAIN c.ownedAtStart
                K2 == Requested(id)
            IN  /\ \A k \in K1 \cap K2 :
                     /\ k \in DOMAIN keysToSubIDMap
                     /\ keysToSubIDMap[k] = c.ownedAtStart[k]
                     /\ k \notin Listed(id)
                /\ (c.result = "ok") <=> (K2 \ K1 # {})
                /\ c.result = "ok" =>
                     /\ id \in DOMAIN subIDToKeyListMap
                     /\ Listed(id) = K2 \ K1
                     /\ Len(subIDToKeyListMap[id]) = Cardinality(K2 \ K1)
                     /\ loop[id].keys = subIDToKeyListMap[id]
                /\ c.result # "ok" =>
                     /\ c.result = "errAllSubscribed"
                     /\ id \notin DOMAIN subIDToKeyListMap
                     /\ loop[id].pc = "none"

C2_Witness ==
    \E id \in SubIDs :
        /\ C2Case(id)
        /\ subCall[id].result = "ok"
        /\ Requested(id) \ DOMAIN subCall[id].ownedAtStart # {}

\* what the program holds for subscription t
StateOf(t) ==
    <<OwnedBy(t), t \in DOMAIN subIDToKeyListMap, Listed(t), t \in subscribeStopChanMap,
      t \in stopClosed>>

\* Unsubscribe call u, about to begin, repeats a call that has returned or
\* names an ID that was never issued
Repeats(u, reqID) ==
    \/ reqID = UnknownID
    \/ \E v \in UnsubCalls : v # u /\ unsubCall[v].pc = "done" /\ unsubCall[v].id = reqID

\* C6: every Unsubscribe call of a caller that makes its calls one after the
\* other returns success; a call that repeats an earlier one, or names an ID
\* that was never issued, returns at once and changes nothing; and no step of
\* Unsubscribe(S) changes the keys, key list or stop signal of a subscription
\* other than S.
C6_UnsubscribeIdempotentLocal ==
    [][\A u \in UnsubCalls :
          unsubCall'[u] # unsubCall[u] =>
              /\ unsubCall'[u].result # "panic"
              /\ (unsubCall[u].pc = "idle" /\ Repeats(u, unsubCall'[u].id)) =>
                    /\ unsubCall'[u].pc = "done"
                    /\ unsubCall'[u].result = "ok"
                    /\ UNCHANGED <<subscribeStopChanMap, stopClosed, keysToSubIDMap,
                                   subIDToKeyListMap, loop>>
              /\ \A t \in SubIDs \ {unsubCall'[u].id} : StateOf(t)' = StateOf(t)]_vars

C6_Witness ==
    \E u, v \in UnsubCalls, t \in SubIDs :
        /\ u # v
        /\ unsubCall[u].pc = "done" /\ unsubCall[v].pc = "done"
        /\ unsubCall[u].id = unsubCall[v].id
        /\ unsubCall[u].id \in SubIDs \ {t}
        /\ unsubCall[u].result = "ok" /\ unsubCall[v].result = "ok"
        /\ OwnedBy(t) # {}
        /\ t \in subscribeStopChanMap

\* C7: when Unsubscribe(S) has returned, no key that S owned is in the
\* registry, and a Subscribe made next with a non-empty sentinel key that asks
\* for any of those keys succeeds and reserves every one it asked for.
C7_ReleasedKeysReservable ==
    /\ released \cap DOMAIN keysToSubIDMap = {}
    /\ \A id \in SubIDs :
          LET c == subCall[id]
              again == c.afterUnsub \cap Requested(id)
          IN  (c.pc = "return" /\ c.metadata = [x \in {"sentinelKey"} |-> SentinelKeyName]
                    /\ again # {}) =>
                  /\ c.result = "ok"
                  /\ again \subseteq Listed(id)
                  /\ again \subseteq OwnedBy(id)

C7_Witness ==
    \E id \in SubIDs :
        /\ subCall[id].pc = "return"
        /\ subCall[id].result = "ok"
        /\ subCall[id].afterUnsub \cap Requested(id) # {}
        /\ subCall[id].afterUnsub \subseteq OwnedBy(id)

\* C8: a cycle whose sentinel read and key read both succeed invokes the
\* handler exactly once; a cycle whose sentinel read fails invokes it not at
\* all and goes to the select, which ends the loop only when the stop channel
\* is closed or the context is cancelled.
C8_OneEventPerGoodCycle ==
    [][\A id \in SubIDs :
          LET l == loop'[id]
          IN  /\ l.events <= 1
              /\ l.pc = "select" =>
                    /\ (l.sentinel = "ok" /\ l.fetch = "ok") => l.events = 1
                    /\ l.sentinel = "failed" => (l.events = 0 /\ l.fetch = "none")
              /\ l.sentinel = "failed" => l.pc = "select"
              /\ (loop[id].sentinel = "failed" /\ l.pc = "stopped") =>
                    (id \in stopClosed \/ loop[id].ctx \in ctxDone)]_vars

C8_Witness ==
    \E i, j \in SubIDs :
        /\ loop[i].pc = "select" /\ loop[i].sentinel = "ok" /\ loop[i].fetch = "ok"
        /\ loop[i].events = 1
        /\ loop[j].pc = "select" /\ loop[j].sentinel = "failed" /\ loop[j].events = 0

\* C9: a handler invocation that returns an error or panics leaves its poll
\* loop at the select and every other poll loop as it was; the select then
\* ends the loop only when the stop channel is closed or the context is
\* cancelled.
C9_HandlerFaultKeepsLoops ==
    [][\A id \in SubIDs :
          /\ (loop[id].pc = "handler" /\ loop'[id] # loop[id]) =>
                /\ loop'[id].pc = "select"
                /\ loop'[id].handled \in HandlerOutcomes
                /\ \A j \in SubIDs \ {id} : loop'[j] = loop[j]
          /\ (loop[id].handled \in {"err", "panic"} /\ loop'[id] # loop[id]) =>
                /\ loop[id].pc = "select"
                /\ loop'[id].pc \in {"fetchSentinel", "blocked", "stopped"}
                /\ loop'[id].pc = "stopped" =>
                      (id \in stopClosed \/ loop[id].ctx \in ctxDone)]_vars

C9_Witness ==
    \E i, j \in SubIDs :
        /\ i # j
        /\ loop[i].pc = "select" /\ loop[i].handled = "panic"
        /\ loop[j].pc \notin {"none", "stopped"}

\* the metadata a Subscribe call was given
MetadataOf(id) ==
    IF subCall[id].pc = "idle" THEN subCall'[id].metadata ELSE subCall[id].metadata

\* C10: Subscribe whose metadata has no sentinel key, or an empty one, returns
\* the sentinel error whatever keys it was asked for, starts no poll loop and
\* leaves both registry maps as they were.
C10_NoSentinelNoSubscription ==
    [][\A id \in SubIDs :
          (subCall'[id] # subCall[id] /\ getSentinelKeyFromMetadata(MetadataOf(id)) = "") =>
              /\ subCall[id].pc \in {"idle", "return"}
              /\ subCall[id].pc = "idle" =>
                    (subCall'[id].pc = "return" /\ subCall'[id].result = "errSentinel")
              /\ subCall[id].pc = "return" =>
                    (subCall'[id].pc = "done" /\ subCall'[id].result = "errSentinel")
              /\ UNCHANGED <<keysToSubIDMap, subIDToKeyListMap, loop>>
              /\ loop'[id].pc = "none"]_vars

C10_Witness ==
    \E id \in SubIDs :
        /\ subCall[id].pc = "return"
        /\ subCall[id].result = "errSentinel"
        /\ "sentinelKey" \notin DOMAIN subCall[id].metadata
        /\ Len(subCall[id].keys) > 0
        /\ DOMAIN keysToSubIDMap # {}

\* the record of Subscribe call id during the step that is being taken
CallOf(id) == IF subCall[id].pc = "idle" THEN subCall'[id] ELSE subCall[id]

\* a Subscribe call with a non-empty sentinel key that asks for at least one
\* key, every one of them owned when the call begins
AllOwnedCase(c) ==
    /\ c.sentinelKey # ""
    /\ Len(c.keys) > 0
    /\ SeqToSet(c.keys) \subseteq DOMAIN c.ownedAtStart

\* C11: Subscribe whose every requested key is already owned returns the
\* 'all keys already subscribed' error, starts no poll loop, and no step of it
\* changes the owner of a key or the key list of a subscription.
C11_AllOwnedFails ==
    [][\A id \in SubIDs :
          (subCall'[id] # subCall[id] /\ AllOwnedCase(CallOf(id))) =>
              /\ UNCHANGED <<keysToSubIDMap, subIDToKeyListMap, loop>>
              /\ keysToSubIDMap' = CallOf(id).ownedAtStart
              /\ id \notin DOMAIN subIDToKeyListMap'
              /\ loop'[id].pc = "none"
              /\ subCall'[id].result \in {"none", "errAllSubscribed"}
              /\ subCall'[id].pc \in {"return", "done"} =>
                    subCall'[id].result = "errAllSubscribed"]_vars

C11_Witness ==
    \E id \in SubIDs :
        /\ subCall[id].pc = "return"
        /\ AllOwnedCase(subCall[id])
        /\ subCall[id].result = "errAllSubscribed"
        /\ \A k \in Requested(id) :
              loop[keysToSubIDMap[k]].pc \notin {"none", "stopped"}

\* C12: a Subscribe call that asks for no key at all does not return the
\* error that a call returns whose requested keys are all owned already
\* (the 'all keys already subscribed' error of C11).
C12_NoKeysErrorDistinct ==
    \A id \in SubIDs :
        (subCall[id].pc = "return" /\ subCall[id].sentinelKey # ""
              /\ Len(subCall[id].keys) = 0) =>
            subCall[id].result # "errAllSubscribed"

\* C13: whenever no Subscribe or Unsubscribe call of a caller that makes its
\* calls one after the other is mid-execution, the key-to-ID map sends key k
\* to S iff the key list of S contains k, and the union of all key lists is
\* the domain of the key-to-ID map.
C13_RegistryPairConsistent ==
    NoCallInFlight =>
        /\ \A k \in Keys, S \in SubIDs : (k \in OwnedBy(S)) <=> (k \in Listed(S))
        /\ UNION {Listed(S) : S \in DOMAIN subIDToKeyListMap} = DOMAIN keysToSubIDMap

C13_Witness ==
    \E id \in SubIDs, u \in UnsubCalls :
        /\ NoCallInFlight
        /\ Listed(id) = Keys
        /\ OwnedBy(id) = Keys
        /\ unsubCall[u].pc = "done"
        /\ unsubCall[u].id \in SubIDs \ {id}

\* the doSubscribe goroutine of subscription id has been started and has not
\* returned
Running(id) == loop[id].pc \notin {"none", "stopped"}

\* the keys the poll loop of subscription id reads (req.Keys of doSubscribe)
Watched(id) == SeqToSet(loop[id].keys)

\* C14: no two poll loops that have not yet stopped watch the same key.
C14_OneRunningLoopPerKey ==
    \A i, j \in SubIDs :
        (i # j /\ Running(i) /\ Running(j)) => Watched(i) \cap Watched(j) = {}

\* the stop channel of subscription id is closed or the context its
\* goroutine was started with is cancelled
StopOrCancel(id) == id \in stopClosed \/ loop[id].ctx \in ctxDone

\* C15: a poll loop whose stop channel is closed or whose context is
\* cancelled eventually returns (a loop blocked in its select returns as its
\* next step), and a loop that has returned performs no further read or
\* handler invocation.
C15_StopOrCancelEndsLoop ==
    /\ \A id \in SubIDs : (Running(id) /\ StopOrCancel(id)) ~> (loop[id].pc = "stopped")
    /\ [][\A id \in SubIDs :
             /\ loop[id].pc = "stopped" => loop'[id] = loop[id]
             /\ (loop[id].pc = "blocked" /\ StopOrCancel(id) /\ loop'[id] # loop[id]) =>
                   loop'[id].pc = "stopped"]_vars

C15_Witness ==
    \E i, j \in SubIDs :
        /\ loop[i].pc = "stopped" /\ i \in stopClosed /\ loop[i].ctx \notin ctxDone
        /\ loop[j].pc = "stopped" /\ j \notin stopClosed /\ loop[j].ctx \in ctxDone
        /\ subscribePollInterval <= 0

\* C16: within one subscription the handler invocation of a cycle has
\* returned or faulted before the next sentinel read begins: a cycle begins
\* only from the select, a loop at the select after a successful read of its
\* keys has had its one handler invocation return, error or panic, and the
\* loop's only step while the handler is invoked is that invocation's end.
C16_HandlerEndsBeforeNextFetch ==
    [][\A id \in SubIDs :
          /\ (loop'[id].pc = "fetchSentinel" /\ loop[id].pc # "fetchSentinel") =>
                /\ loop[id].pc \in {"none", "select", "blocked"}
                /\ loop'[id].events = 0 /\ loop'[id].handled = "none"
          /\ (loop'[id].pc = "select" /\ loop'[id].fetch = "ok") =>
                (loop'[id].handled \in HandlerOutcomes /\ loop'[id].events = 1)
          /\ (loop[id].pc = "handler" /\ loop'[id] # loop[id]) =>
                /\ loop[id].events = 0
                /\ loop'[id].pc = "select"
                /\ loop'[id].events = 1]_vars

C16_Witness ==
    \E i, j \in SubIDs :
        /\ loop[i].pc = "handler" /\ loop[i].events = 0
        /\ loop[j].pc = "select" /\ loop[j].handled = "err" /\ loop[j].events = 1
        /\ subscribePollInterval <= 0

\* C17: a step of Unsubscribe(S) closes no stop channel but that of S and
\* moves no poll loop; a poll loop returns only when its own stop channel is
\* closed or its own context is cancelled, and otherwise goes from its select
\* on to the next cycle; and once a context is cancelled every poll loop
\* started with it eventually returns.
C17_StopSignalsIndependent ==
    /\ [][/\ \A u \in UnsubCalls :
                unsubCall'[u] # unsubCall[u] =>
                    /\ stopClosed' \ stopClosed \subseteq {unsubCall'[u].id}
                    /\ loop' = loop
          /\ \A id \in SubIDs :
                (loop'[id].pc = "stopped" /\ loop[id].pc # "stopped") => StopOrCancel(id)]_vars
    /\ \A id \in SubIDs :
          (loop[id].pc \in {"select", "blocked"})
              ~> (loop[id].pc = "fetchSentinel" \/ StopOrCancel(id))
    /\ \A id \in SubIDs :
          (Running(id) /\ loop[id].ctx \in ctxDone) ~> (loop[id].pc = "stopped")

C17_Witness ==
    \E i, j \in SubIDs :
        /\ i # j
        /\ loop[i].ctx = loop[j].ctx
        /\ i \in stopClosed /\ loop[i].pc = "stopped"
        /\ \E u \in UnsubCalls : unsubCall[u].pc = "done" /\ unsubCall[u].id = i
        /\ Running(j) /\ ~StopOrCancel(j)
        /\ loop[j].pc = "handler"

\* the first key of keys whose read fails
FirstFailing(keys, failing) ==
    keys[CHOOSE i \in 1..Len(keys) :
            /\ keys[i] \in failing
            /\ \A j \in 1..(i - 1) : keys[j] \notin failing]

\* Get with a non-empty key list returns the error of the first failing read
\* and no item, or with no failing read an item for every key asked for
GetFailsFast ==
    \A keys \in KeyLists \ {<<>>}, failing \in SUBSET Readable :
        LET r == Get(keys, failing)
        IN  IF SeqToSet(keys) \cap failing # {}
            THEN r.err /\ r.items = {} /\ r.failedAt = FirstFailing(keys, failing)
            ELSE ~r.err /\ r.items = SeqToSet(keys)

\* C18: Get with a non-empty key list stops at the first key whose read fails
\* and returns that error with no item; a poll cycle whose read of the watched
\* keys fails holds no item, invokes no handler and goes to the select, which
\* ends the loop only on stop or cancellation; and a handler is only ever
\* invoked with an item for every watched key.
C18_NoPartialResults ==
    [][\A id \in SubIDs :
          LET l == loop'[id]
          IN  /\ (loop[id].pc = "fetchKeys" /\ l # loop[id]) => GetFailsFast
              /\ l.fetch = "failed" =>
                    (l.items = {} /\ l.events = 0 /\ l.handled = "none" /\ l.pc = "select")
              /\ (l.pc = "handler" \/ l.events > 0) =>
                    (l.fetch = "ok" /\ l.items = SeqToSet(l.keys))
              /\ (loop[id].fetch = "failed" /\ l # loop[id]) =>
                    /\ l.pc \in {"fetchSentinel", "blocked", "stopped"}
                    /\ l.pc = "stopped" => StopOrCancel(id)]_vars

C18_Witness ==
    \E id \in SubIDs :
        /\ loop[id].pc = "select"
        /\ loop[id].sentinel = "ok" /\ loop[id].fetch = "failed"
        /\ Len(loop[id].keys) = 2
        /\ loop[id].items = {} /\ loop[id].events = 0
        /\ ~StopOrCancel(id)

\* C19: whenever no call is mid-execution, the IDs with a stop channel stored
\* are the IDs with a key list in the registry; a Subscribe call that returned
\* an error has left no stop channel stored.
C19_NoLeakedStopSignals ==
    NoCallInFlight => subscribeStopChanMap = DOMAIN subIDToKeyListMap

====
